---- MODULE Spec2Model ----
(***************************************************************************)
(* Model of homework.py: the poll loop of main() and the functions it      *)
(* calls (get_api_answer, check_response, parse_status, check_tokens,      *)
(* send_message).  One step of the model is one whole pass through the     *)
(* body of `while True`, with the outcome of the HTTP request, the clock   *)
(* reading and the behaviour of the Telegram bot as its inputs.            *)
(*                                                                         *)
(* The Russian string literals of the source are rendered in ASCII; what   *)
(* matters for the model is which texts are equal and which are not, and   *)
(* how the formatted texts are put together from their parts.              *)
(***************************************************************************)
EXTENDS Integers, Sequences, FiniteSets, TLC

(***************************************************************************)
(* Bounds of the model.                                                    *)
(***************************************************************************)
MaxIter == 4
MaxRecords == 2

(***************************************************************************)
(* Constants of the program.                                               *)
(***************************************************************************)
RETRY_TIME == 600

ENDPOINT == "https://practicum.yandex.ru/api/user_api/homework_statuses/"

HOMEWORK_STATUSES ==
    [approved  |-> "Work checked: the reviewer liked everything. Hurray!",
     reviewing |-> "Work taken for review by the reviewer.",
     rejected  |-> "Work checked: the reviewer has remarks."]

TokenNames == {"PRACTICUM_TOKEN", "TELEGRAM_TOKEN", "TELEGRAM_CHAT_ID"}

(***************************************************************************)
(* Inputs: what the environment may hand to the program.                   *)
(***************************************************************************)
\* values int(time.time()) may return
ClockValues == {2}
\* values the server may put under 'current_date'
DateValues == {0, 3}
\* HTTP status codes other than 200
BadStatusCodes == {404, 500}
\* str(error) of exceptions raised by requests.get / .json()
FaultMessages == {"connection refused", "read timed out"}
\* what bot.send_message does: returns the sent message, or raises (a
\* returned message with another text is logged like a delivered one)
BotOutcomes == {"delivered", "raised"}
\* bot.send_message is not called
NotCalled == "not called"
\* time.time() is not called
NotRead == -1

HomeworkNames == {"hw1", "hw2"}
StatusValues == {"approved", "reviewing", "rejected", "unknown"}

\* a homework record: a mapping in which each of the two keys may be absent
\* (an absent key carries the value "")
HomeworkRecord(n, st) ==
    [has_name |-> (n # ""), homework_name |-> n,
     has_status |-> (st # ""), status |-> st]

HomeworkRecords ==
    { HomeworkRecord(n, st) :
        n \in HomeworkNames, st \in StatusValues \ {"unknown"} }
    \cup { HomeworkRecord("hw1", "unknown"), HomeworkRecord("hw1", ""),
           HomeworkRecord("", "approved"), HomeworkRecord("", "") }

\* the records that may follow the first one in a list
LaterRecords ==
    { HomeworkRecord("hw2", "rejected") }

RECURSIVE SeqsUpTo(_, _)
SeqsUpTo(S, n) ==
    IF n = 0 THEN { <<>> }
    ELSE LET shorter == SeqsUpTo(S, n - 1)
         IN  shorter \cup { Append(t, x) : t \in shorter, x \in S }

HomeworkLists ==
    { <<>> } \cup
    { <<first>> \o rest : first \in HomeworkRecords,
                          rest \in SeqsUpTo(LaterRecords, MaxRecords - 1) }

\* the value under 'homeworks': a list, or something that is not a list
NotAList == [is_list |-> FALSE, items |-> <<>>]
HomeworksValues ==
    { NotAList } \cup { [is_list |-> TRUE, items |-> l] : l \in HomeworkLists }

\* the values under 'homeworks' in the bodies that carry no 'current_date'
NoDateHomeworks ==
    { NotAList, [is_list |-> TRUE, items |-> <<>>],
      [is_list |-> TRUE, items |-> <<HomeworkRecord("hw1", "approved")>>] }

\* the decoded JSON body: a mapping in which each of the two keys may be
\* absent, or a value that is not a mapping at all
NotAMapping ==
    [is_dict |-> FALSE, has_homeworks |-> FALSE, homeworks |-> NotAList,
     has_current_date |-> FALSE, current_date |-> 0]
JsonBodies ==
    { NotAMapping } \cup
    { [is_dict |-> TRUE, has_homeworks |-> TRUE, homeworks |-> hw,
       has_current_date |-> TRUE, current_date |-> d] :
         hw \in HomeworksValues, d \in DateValues } \cup
    { [is_dict |-> TRUE, has_homeworks |-> TRUE, homeworks |-> hw,
       has_current_date |-> FALSE, current_date |-> 0] :
         hw \in NoDateHomeworks } \cup
    { [is_dict |-> TRUE, has_homeworks |-> FALSE, homeworks |-> NotAList,
       has_current_date |-> TRUE, current_date |-> d] : d \in DateValues } \cup
    { [is_dict |-> TRUE, has_homeworks |-> FALSE, homeworks |-> NotAList,
       has_current_date |-> FALSE, current_date |-> 0] }

\* what requests.get(...) followed by .json() does: raises (fault # ""), or
\* answers with a status code and a body
NetOutcomes ==
    { [fault |-> m, status_code |-> 0, json |-> NotAMapping] :
        m \in FaultMessages } \cup
    { [fault |-> "", status_code |-> c, json |-> NotAMapping] :
        c \in BadStatusCodes } \cup
    { [fault |-> "", status_code |-> 200, json |-> j] : j \in JsonBodies }

(***************************************************************************)
(* State.                                                                  *)
(*   tokens              which of the three environment variables are set  *)
(*   pc                  "start": main() not yet past check_tokens;        *)
(*                       "loop": at the top of `while True`;               *)
(*                       "raised": an exception has left main()            *)
(*   exc                 the exception that left main(), "" if none        *)
(*   iter                number of passes through the loop body so far     *)
(*   the locals of main(), under their names in the source                 *)
(*   last                what the last pass did, as seen from outside:     *)
(*                       request sent, response received, messages handed  *)
(*                       to the bot, seconds slept, and whether its report *)
(*                       is the same text as that of the pass before it    *)
(*   http_notified       how many times the text of the non-200 error has  *)
(*                       been handed to the bot since the start            *)
(***************************************************************************)
VARIABLES tokens, pc, exc, iter,
          current_timestamp, status_verdict,
          status_verdict_previous, HTTP_error_previous,
          endpoint_message_previous, error_not_list_previous,
          error_no_keys_previous, error_status_previous,
          last, http_notified

locals == <<current_timestamp, status_verdict,
            status_verdict_previous, HTTP_error_previous,
            endpoint_message_previous, error_not_list_previous,
            error_no_keys_previous, error_status_previous>>
previous_reports == <<status_verdict_previous, HTTP_error_previous,
                      endpoint_message_previous, error_not_list_previous,
                      error_no_keys_previous, error_status_previous>>
vars == <<tokens, pc, exc, iter, locals, last, http_notified>>

\* a local that has not been assigned
Unbound == "<unbound>"

NoPass ==
    [kind |-> "none", report |-> "", repeated |-> FALSE, sent |-> <<>>,
     slept |-> 0, from_date |-> 0, from_clock |-> FALSE,
     has_homeworks |-> FALSE, homeworks |-> NotAList,
     has_current_date |-> FALSE, current_date |-> 0]

(***************************************************************************)
(* The functions of homework.py.                                           *)
(***************************************************************************)
\* send_message without its `except Exception`: what the bot raises leaves
\* the function
MutSendMessageUncaught(bot, message) ==
    [text |-> message, outcome |-> bot,
     raises |-> IF bot = "raised" THEN "TelegramError" ELSE ""]

\* send_message: the message is handed to bot.send_message; whatever the bot
\* does, raising included, is logged, and nothing is raised (raises = "") or
\* returned to the caller
send_message(bot, message) ==
    [text |-> message, outcome |-> bot, raises |-> ""]

\* timestamp = current_timestamp or int(time.time()): the clock is read only
\* when current_timestamp is falsy
TimeReads(timestamp) == IF timestamp # 0 THEN {NotRead} ELSE ClockValues

Timestamp(timestamp, now) ==
    IF timestamp # 0
    THEN [value |-> timestamp, from_clock |-> FALSE]
    ELSE [value |-> now, from_clock |-> TRUE]

\* get_api_answer putting the status code into the text of the exception
MutGetApiAnswerCodeInText(timestamp, now, net) ==
    LET t == Timestamp(timestamp, now)
        request == [from_date |-> t.value, from_clock |-> t.from_clock]
    IN  IF net.fault # ""
        THEN [exc |-> "Exception", msg |-> net.fault, json |-> NotAMapping,
              params |-> request]
        ELSE IF net.status_code # 200
        THEN [exc |-> "HTTPstatusNot200",
              msg |-> "API returns the code " \o ToString(net.status_code),
              json |-> NotAMapping, params |-> request]
        ELSE [exc |-> "None", msg |-> "", json |-> net.json,
              params |-> request]

get_api_answer(timestamp, now, net) ==
    LET t == Timestamp(timestamp, now)
        request == [from_date |-> t.value, from_clock |-> t.from_clock]
    IN  IF net.fault # ""
        THEN [exc |-> "Exception", msg |-> net.fault, json |-> NotAMapping,
              params |-> request]
        ELSE IF net.status_code # 200
        THEN [exc |-> "HTTPstatusNot200",
              msg |-> "API returns a code other than 200",
              json |-> NotAMapping, params |-> request]
        ELSE [exc |-> "None", msg |-> "", json |-> net.json,
              params |-> request]

\* check_response reading the list with response.get('homeworks', [])
\* instead of requiring the key
MutCheckResponseDefaultList(response) ==
    IF ~response.is_dict
    THEN [exc |-> "TypeError",
          msg |-> "descriptor 'keys' requires a 'dict' object",
          homeworks |-> <<>>]
    ELSE IF ~response.has_homeworks
    THEN [exc |-> "None", msg |-> "", homeworks |-> <<>>]
    ELSE IF response.has_current_date
    THEN IF response.homeworks.is_list
         THEN [exc |-> "None", msg |-> "",
               homeworks |-> response.homeworks.items]
         ELSE [exc |-> "HomeworksIsNotList",
               msg |-> "What is returned is not a list of homeworks.",
               homeworks |-> <<>>]
    ELSE [exc |-> "NoKeysException",
          msg |-> "Expected keys are missing in the API answer.",
          homeworks |-> <<>>]

\* check_response requiring the key 'homeworks' only
MutCheckResponseOnlyHomeworks(response) ==
    IF ~response.is_dict
    THEN [exc |-> "TypeError",
          msg |-> "descriptor 'keys' requires a 'dict' object",
          homeworks |-> <<>>]
    ELSE IF response.has_homeworks
    THEN IF response.homeworks.is_list
         THEN [exc |-> "None", msg |-> "",
               homeworks |-> response.homeworks.items]
         ELSE [exc |-> "HomeworksIsNotList",
               msg |-> "What is returned is not a list of homeworks.",
               homeworks |-> <<>>]
    ELSE [exc |-> "NoKeysException",
          msg |-> "Expected keys are missing in the API answer.",
          homeworks |-> <<>>]

\* check_response without the isinstance test
MutCheckResponseNoListCheck(response) ==
    IF ~response.is_dict
    THEN [exc |-> "TypeError",
          msg |-> "descriptor 'keys' requires a 'dict' object",
          homeworks |-> <<>>]
    ELSE IF response.has_homeworks /\ response.has_current_date
    THEN [exc |-> "None", msg |-> "",
          homeworks |-> response.homeworks.items]
    ELSE [exc |-> "NoKeysException",
          msg |-> "Expected keys are missing in the API answer.",
          homeworks |-> <<>>]

check_response(response) ==
    IF ~response.is_dict
    THEN [exc |-> "TypeError",
          msg |-> "descriptor 'keys' requires a 'dict' object",
          homeworks |-> <<>>]
    ELSE IF response.has_homeworks /\ response.has_current_date
    THEN IF response.homeworks.is_list
         THEN [exc |-> "None", msg |-> "",
               homeworks |-> response.homeworks.items]
         ELSE [exc |-> "HomeworksIsNotList",
               msg |-> "What is returned is not a list of homeworks.",
               homeworks |-> <<>>]
    ELSE [exc |-> "NoKeysException",
          msg |-> "Expected keys are missing in the API answer.",
          homeworks |-> <<>>]

\* str(KeyError(key))
KeyErrorText(key) == "'" \o key \o "'"

\* parse_status passing an unknown status through instead of looking it up
MutParseStatusPassThrough(homework) ==
    IF ~homework.has_name
    THEN [exc |-> "KeyError", msg |-> KeyErrorText("homework_name"),
          value |-> ""]
    ELSE IF ~homework.has_status
    THEN [exc |-> "KeyError", msg |-> KeyErrorText("status"), value |-> ""]
    ELSE [exc |-> "None", msg |-> "",
          value |-> "Review status of work \"" \o homework.homework_name
                    \o "\" changed. "
                    \o (IF homework.status \in DOMAIN HOMEWORK_STATUSES
                        THEN HOMEWORK_STATUSES[homework.status]
                        ELSE homework.status)]

parse_status(homework) ==
    IF ~homework.has_name
    THEN [exc |-> "KeyError", msg |-> KeyErrorText("homework_name"),
          value |-> ""]
    ELSE IF ~homework.has_status
    THEN [exc |-> "KeyError", msg |-> KeyErrorText("status"), value |-> ""]
    ELSE IF homework.status \notin DOMAIN HOMEWORK_STATUSES
    THEN [exc |-> "KeyError", msg |-> KeyErrorText(homework.status),
          value |-> ""]
    ELSE [exc |-> "None", msg |-> "",
          value |-> "Review status of work \"" \o homework.homework_name
                    \o "\" changed. " \o HOMEWORK_STATUSES[homework.status]]

\* check_tokens with `or` in place of `and`
MutCheckTokensAny(env) ==
    env["PRACTICUM_TOKEN"] \/ env["TELEGRAM_TOKEN"] \/ env["TELEGRAM_CHAT_ID"]

check_tokens(env) ==
    env["PRACTICUM_TOKEN"] /\ env["TELEGRAM_TOKEN"] /\ env["TELEGRAM_CHAT_ID"]

(***************************************************************************)
(* The texts main() builds.                                                *)
(***************************************************************************)
HTTPErrorText(error) == "Failure in program: API answer: \"" \o error \o "\"."
EndpointMessageText(error) ==
    "Program operation failure: Endpoint: " \o ENDPOINT
    \o " unavailable. API answer: " \o error
ErrorNotListText(error) == "Failure in the program: \"" \o error \o "\""
ErrorNoKeysText(error) == "Failure in the program: \"" \o error \o "\""
ErrorStatusText(error) ==
    "Program operation failure: Homework status undocumented. API answer: "
    \o error
NoStatusText == "No status."

(***************************************************************************)
(* main().                                                                 *)
(***************************************************************************)
\* the pattern with the assignment `previous = text` forgotten
MutNotifyNoRecord(text, previous, bot) ==
    IF text # previous
    THEN [sent |-> <<send_message(bot, text)>>, previous |-> previous,
          raises |-> send_message(bot, text).raises]
    ELSE [sent |-> <<>>, previous |-> previous, raises |-> ""]

\* the pattern with the comparison forgotten
MutNotifyAlways(text, previous, bot) ==
    [sent |-> <<send_message(bot, text)>>, previous |-> text,
     raises |-> send_message(bot, text).raises]

\* the pattern remembering the text only when the bot delivered it
MutNotifyRecordDelivered(text, previous, bot) ==
    IF text # previous
    THEN [sent |-> <<send_message(bot, text)>>,
          previous |-> IF bot = "delivered" THEN text ELSE previous,
          raises |-> send_message(bot, text).raises]
    ELSE [sent |-> <<>>, previous |-> previous, raises |-> ""]

\* `if text != previous: send_message(bot, text); previous = text`, the
\* pattern main() uses for the verdict and for each kind of error; the
\* assignment is reached only when send_message returns
NotifyIfChanged(text, previous, bot) ==
    IF text # previous
    THEN LET m == send_message(bot, text)
         IN  [sent |-> <<m>>,
              previous |-> IF m.raises = "" THEN text ELSE previous,
              raises |-> m.raises]
    ELSE [sent |-> <<>>, previous |-> previous, raises |-> ""]

\* what the bot may do in a pass: it is called only when the text differs
BotCalls(text, previous) ==
    IF text # previous THEN BotOutcomes ELSE {NotCalled}

\* time.sleep(RETRY_TIME) placed inside `if error != error_previous:` in the
\* handlers of HomeworksIsNotList and NoKeysException
SleepIfChanged(text, previous) == IF text # previous THEN RETRY_TIME ELSE 0

\* the cursor moved back by one retry interval behind the server's date
MutNextTimestampBack(response) == response.current_date - RETRY_TIME

\* current_timestamp = response['current_date']
NextTimestamp(response) == response.current_date

\* the verdict taken from the last record of the list
MutStatusVerdictLast(homeworks) ==
    IF homeworks = <<>>
    THEN [exc |-> "None", msg |-> "", value |-> NoStatusText]
    ELSE parse_status(homeworks[Len(homeworks)])

\* the empty list reported with an empty text instead of the sentinel
MutStatusVerdictNoSentinel(homeworks) ==
    IF homeworks = <<>>
    THEN [exc |-> "None", msg |-> "", value |-> ""]
    ELSE parse_status(homeworks[1])

\* `if homeworks == []: status_verdict = <sentinel>` and otherwise
\* `status_verdict = parse_status(homeworks[0])`
StatusVerdict(homeworks) ==
    IF homeworks = <<>>
    THEN [exc |-> "None", msg |-> "", value |-> NoStatusText]
    ELSE parse_status(homeworks[1])

Pass(kind, report, sent, slept, r) ==
    [kind |-> kind, report |-> report,
     repeated |-> (iter > 0 /\ report = last.report),
     sent |-> sent, slept |-> slept,
     from_date |-> r.params.from_date, from_clock |-> r.params.from_clock,
     has_homeworks |-> r.json.has_homeworks,
     homeworks |-> r.json.homeworks,
     has_current_date |-> r.json.has_current_date,
     current_date |-> r.json.current_date]

Finish(p) ==
    /\ last' = p
    /\ iter' = iter + 1
    /\ http_notified' =
         http_notified + (IF p.kind = "HTTPstatusNot200" THEN Len(p.sent)
                          ELSE 0)

\* how the pass ends: an exception that nothing catches leaves main(),
\* otherwise control returns to the top of the loop
Ending(raises) ==
    IF raises # ""
    THEN pc' = "raised" /\ exc' = raises
    ELSE UNCHANGED <<pc, exc>>

\* the seconds slept by statements that come after a send
SleptAfter(raises, seconds) == IF raises # "" THEN 0 ELSE seconds

AtLoop == pc = "loop" /\ iter < MaxIter

\* check_tokens() is False: NoTokenException leaves main()
CheckTokensFail ==
    /\ pc = "start"
    /\ ~check_tokens(tokens)
    /\ pc' = "raised"
    /\ exc' = "NoTokenException"
    /\ UNCHANGED <<tokens, iter, locals, last, http_notified>>

\* check_tokens() is True: the locals are initialised and the loop entered
Startup ==
    /\ pc = "start"
    /\ check_tokens(tokens)
    /\ \E now \in ClockValues : current_timestamp' = now
    /\ status_verdict_previous' = ""
    /\ HTTP_error_previous' = ""
    /\ endpoint_message_previous' = ""
    /\ error_not_list_previous' = ""
    /\ error_no_keys_previous' = ""
    /\ error_status_previous' = ""
    /\ pc' = "loop"
    /\ UNCHANGED <<tokens, exc, iter, status_verdict, last, http_notified>>

\* get_api_answer raises HTTPstatusNot200
IterHTTPstatusNot200 ==
    /\ AtLoop
    /\ \E net \in NetOutcomes, now \in TimeReads(current_timestamp) :
         LET r == get_api_answer(current_timestamp, now, net)
             HTTP_error == HTTPErrorText(r.msg)
         IN  /\ r.exc = "HTTPstatusNot200"
             /\ \E bot \in BotCalls(HTTP_error, HTTP_error_previous) :
                  LET n == NotifyIfChanged(HTTP_error, HTTP_error_previous,
                                           bot)
                  IN  /\ HTTP_error_previous' = n.previous
                      /\ Ending(n.raises)
                      /\ Finish(Pass("HTTPstatusNot200", HTTP_error, n.sent,
                                     SleptAfter(n.raises, RETRY_TIME), r))
    /\ UNCHANGED <<tokens, current_timestamp, status_verdict,
                   status_verdict_previous, endpoint_message_previous,
                   error_not_list_previous, error_no_keys_previous,
                   error_status_previous>>

\* get_api_answer raises any other exception
IterRequestException ==
    /\ AtLoop
    /\ \E net \in NetOutcomes, now \in TimeReads(current_timestamp) :
         LET r == get_api_answer(current_timestamp, now, net)
             endpoint_message == EndpointMessageText(r.msg)
         IN  /\ r.exc = "Exception"
             /\ \E bot \in BotCalls(endpoint_message,
                                     endpoint_message_previous) :
                  LET n == NotifyIfChanged(endpoint_message,
                                           endpoint_message_previous, bot)
                  IN  /\ endpoint_message_previous' = n.previous
                      /\ Ending(n.raises)
                      /\ Finish(Pass("Exception", endpoint_message, n.sent,
                                     SleptAfter(n.raises, RETRY_TIME), r))
    /\ UNCHANGED <<tokens, current_timestamp, status_verdict,
                   status_verdict_previous, HTTP_error_previous,
                   error_not_list_previous, error_no_keys_previous,
                   error_status_previous>>

\* check_response raises something its two handlers do not catch: the
\* TypeError of dict.keys() on a body that is not a mapping leaves main()
IterNotMapping ==
    /\ AtLoop
    /\ \E net \in NetOutcomes, now \in TimeReads(current_timestamp) :
         LET r == get_api_answer(current_timestamp, now, net)
             c == check_response(r.json)
         IN  /\ r.exc = "None"
             /\ c.exc = "TypeError"
             /\ Ending(c.exc)
             /\ Finish(Pass("TypeError", c.msg, <<>>, 0, r))
    /\ UNCHANGED <<tokens, locals>>

\* check_response raises HomeworksIsNotList
IterHomeworksIsNotList ==
    /\ AtLoop
    /\ \E net \in NetOutcomes, now \in TimeReads(current_timestamp) :
         LET r == get_api_answer(current_timestamp, now, net)
             c == check_response(r.json)
             error_not_list == ErrorNotListText(c.msg)
         IN  /\ r.exc = "None"
             /\ c.exc = "HomeworksIsNotList"
             /\ \E bot \in BotCalls(error_not_list,
                                     error_not_list_previous) :
                  LET n == NotifyIfChanged(error_not_list,
                                           error_not_list_previous, bot)
                  IN  /\ error_not_list_previous' = n.previous
                      /\ Ending(n.raises)
                      /\ Finish(Pass("HomeworksIsNotList", error_not_list,
                                     n.sent,
                                     SleptAfter(n.raises,
                                       SleepIfChanged(error_not_list,
                                                      error_not_list_previous)),
                                     r))
    /\ UNCHANGED <<tokens, current_timestamp, status_verdict,
                   status_verdict_previous, HTTP_error_previous,
                   endpoint_message_previous, error_no_keys_previous,
                   error_status_previous>>

\* check_response raises NoKeysException
IterNoKeys ==
    /\ AtLoop
    /\ \E net \in NetOutcomes, now \in TimeReads(current_timestamp) :
         LET r == get_api_answer(current_timestamp, now, net)
             c == check_response(r.json)
             error_no_keys == ErrorNoKeysText(c.msg)
         IN  /\ r.exc = "None"
             /\ c.exc = "NoKeysException"
             /\ \E bot \in BotCalls(error_no_keys, error_no_keys_previous) :
                  LET n == NotifyIfChanged(error_no_keys,
                                           error_no_keys_previous, bot)
                  IN  /\ error_no_keys_previous' = n.previous
                      /\ Ending(n.raises)
                      /\ Finish(Pass("NoKeysException", error_no_keys,
                                     n.sent,
                                     SleptAfter(n.raises,
                                       SleepIfChanged(error_no_keys,
                                                      error_no_keys_previous)),
                                     r))
    /\ UNCHANGED <<tokens, current_timestamp, status_verdict,
                   status_verdict_previous, HTTP_error_previous,
                   endpoint_message_previous, error_not_list_previous,
                   error_status_previous>>

\* the list is empty, or parse_status returns the verdict of homeworks[0]
IterVerdict ==
    /\ AtLoop
    /\ \E net \in NetOutcomes, now \in TimeReads(current_timestamp) :
         LET r == get_api_answer(current_timestamp, now, net)
             c == check_response(r.json)
             p == StatusVerdict(c.homeworks)
         IN  /\ r.exc = "None"
             /\ c.exc = "None"
             /\ p.exc = "None"
             /\ \E bot \in BotCalls(p.value, status_verdict_previous) :
                  LET n == NotifyIfChanged(p.value, status_verdict_previous,
                                           bot)
                  IN  /\ status_verdict' = p.value
                      /\ status_verdict_previous' = n.previous
                      /\ current_timestamp' =
                           IF n.raises = "" THEN NextTimestamp(r.json)
                           ELSE current_timestamp
                      /\ Ending(n.raises)
                      /\ Finish(Pass("verdict", p.value, n.sent,
                                     SleptAfter(n.raises, RETRY_TIME), r))
    /\ UNCHANGED <<tokens, HTTP_error_previous,
                   endpoint_message_previous, error_not_list_previous,
                   error_no_keys_previous, error_status_previous>>

\* parse_status raises and status_verdict holds the value of an earlier
\* pass: the handler reports the error and sleeps, then the code after the
\* handler runs with the stale status_verdict
IterParseError ==
    /\ AtLoop
    /\ status_verdict # Unbound
    /\ \E net \in NetOutcomes, now \in TimeReads(current_timestamp) :
         LET r == get_api_answer(current_timestamp, now, net)
             c == check_response(r.json)
             p == StatusVerdict(c.homeworks)
             error_status == ErrorStatusText(p.msg)
         IN  /\ r.exc = "None"
             /\ c.exc = "None"
             /\ p.exc # "None"
             /\ \E bot1 \in BotCalls(error_status, error_status_previous),
                   bot2 \in BotCalls(status_verdict,
                                     status_verdict_previous) :
                  LET e == NotifyIfChanged(error_status,
                                           error_status_previous, bot1)
                      n == IF e.raises # ""
                           THEN [sent |-> <<>>,
                                 previous |-> status_verdict_previous,
                                 raises |-> e.raises]
                           ELSE NotifyIfChanged(status_verdict,
                                                status_verdict_previous,
                                                bot2)
                  IN  /\ error_status_previous' = e.previous
                      /\ status_verdict_previous' = n.previous
                      /\ current_timestamp' =
                           IF n.raises = "" THEN NextTimestamp(r.json)
                           ELSE current_timestamp
                      /\ Ending(n.raises)
                      /\ Finish(Pass("parse_error", error_status,
                                     e.sent \o n.sent,
                                     SleptAfter(e.raises, RETRY_TIME)
                                       + SleptAfter(n.raises, RETRY_TIME),
                                     r))
    /\ UNCHANGED <<tokens, status_verdict, HTTP_error_previous,
                   endpoint_message_previous, error_not_list_previous,
                   error_no_keys_previous>>

\* parse_status raises and status_verdict was never assigned: the handler
\* reports the error and sleeps, then `if status_verdict != ...` raises
\* UnboundLocalError, which leaves main()
IterParseErrorUnbound ==
    /\ AtLoop
    /\ status_verdict = Unbound
    /\ \E net \in NetOutcomes, now \in TimeReads(current_timestamp) :
         LET r == get_api_answer(current_timestamp, now, net)
             c == check_response(r.json)
             p == StatusVerdict(c.homeworks)
             error_status == ErrorStatusText(p.msg)
         IN  /\ r.exc = "None"
             /\ c.exc = "None"
             /\ p.exc # "None"
             /\ \E bot \in BotCalls(error_status, error_status_previous) :
                  LET e == NotifyIfChanged(error_status,
                                           error_status_previous, bot)
                  IN  /\ error_status_previous' = e.previous
                      /\ Ending(IF e.raises # "" THEN e.raises
                                ELSE "UnboundLocalError")
                      /\ Finish(Pass("parse_error", error_status, e.sent,
                                     SleptAfter(e.raises, RETRY_TIME), r))
    /\ UNCHANGED <<tokens, current_timestamp, status_verdict,
                   status_verdict_previous, HTTP_error_previous,
                   endpoint_message_previous, error_not_list_previous,
                   error_no_keys_previous>>

Init ==
    /\ tokens \in [TokenNames -> BOOLEAN]
    /\ pc = "start"
    /\ exc = ""
    /\ iter = 0
    /\ current_timestamp = 0
    /\ status_verdict = Unbound
    /\ status_verdict_previous = Unbound
    /\ HTTP_error_previous = Unbound
    /\ endpoint_message_previous = Unbound
    /\ error_not_list_previous = Unbound
    /\ error_no_keys_previous = Unbound
    /\ error_status_previous = Unbound
    /\ last = NoPass
    /\ http_notified = 0

Next ==
    \/ CheckTokensFail
    \/ Startup
    \/ IterHTTPstatusNot200
    \/ IterRequestException
    \/ IterNotMapping
    \/ IterHomeworksIsNotList
    \/ IterNoKeys
    \/ IterVerdict
    \/ IterParseError
    \/ IterParseErrorUnbound

Spec == Init /\ [][Next]_vars

(***************************************************************************)
(* Vocabulary of the properties.                                           *)
(***************************************************************************)
\* this step is a pass through the loop body
Stepped == iter' = iter + 1

ErrorKinds == {"HTTPstatusNot200", "Exception", "HomeworksIsNotList",
               "NoKeysException", "parse_error"}
\* the pass ended in an error for which main() builds a report text
IsError(p) == p.kind \in ErrorKinds
\* the pass produced a report: a verdict, the sentinel or an error text
IsReport(p) == p.kind \in ErrorKinds \cup {"verdict"}
\* the pass received a response mapping
GotMapping(p) == p.kind \in {"HomeworksIsNotList", "NoKeysException",
                             "verdict", "parse_error"}

\* the pass received a mapping with a list under 'homeworks'
GotList(p) == GotMapping(p) /\ p.has_homeworks /\ p.homeworks.is_list
\* the pass received a mapping with both keys and a list under 'homeworks'
GotValid(p) == GotList(p) /\ p.has_current_date
\* the bot raised on a message of the pass
SentRaised(p) == \E i \in 1..Len(p.sent) : p.sent[i].outcome = "raised"
\* the previous-* variable that belongs to the report of a pass of this kind
PreviousOf(kind) ==
    CASE kind = "HTTPstatusNot200" -> HTTP_error_previous
      [] kind = "Exception" -> endpoint_message_previous
      [] kind = "HomeworksIsNotList" -> error_not_list_previous
      [] kind = "NoKeysException" -> error_no_keys_previous
      [] kind = "parse_error" -> error_status_previous
      [] kind = "verdict" -> status_verdict_previous
      [] OTHER -> ""

(***************************************************************************)
(* Properties.                                                             *)
(***************************************************************************)

\* C1: a pass through the loop is never followed by the next fetch without
\* a sleep in between: whenever a pass starts, the pass before it has slept
\* for at least the retry interval.
C1_SleepBeforeNextFetch ==
    [][(Stepped /\ iter > 0) => last.slept >= RETRY_TIME]_vars

\* C2: once check_tokens has passed, no exception leaves main(): after any
\* number of passes the program is still at the top of the loop.
C2_LoopNeverTerminates == (iter > 0) => (pc = "loop" /\ exc = "")

C4_ErrorDeduplication ==
    [][(Stepped /\ IsError(last) /\ IsError(last'))
         => /\ ((~last.repeated /\ last'.report = last.report)
                  => Len(last.sent) + Len(last'.sent) = 1)
            /\ ((last.repeated /\ last'.report # last.report)
                  => Len(last'.sent) = 1)]_vars

\* C5: a pass whose report (verdict, sentinel or error text) differs from
\* the report of the pass before it hands a message to the bot.
C5_SinglePreviousReport ==
    [][(Stepped /\ IsReport(last) /\ IsReport(last')
          /\ last'.report # last.report)
         => last'.sent # <<>>]_vars

\* C6: two consecutive passes whose responses yield the same verdict
\* sentence (or both the sentinel) hand at most one message to the bot
\* between them.
C6_UnchangedReportSentOnce ==
    [][(Stepped /\ last.kind = "verdict" /\ last'.kind = "verdict"
          /\ last'.report = last.report)
         => Len(last.sent) + Len(last'.sent) <= 1]_vars

\* C6 witness: a verdict pass has repeated the report of the pass before it.
C6_Witness ==
    /\ last.kind = "verdict"
    /\ last.repeated
    /\ last.report # NoStatusText

C8_ErrorKeepsCursor ==
    [][(Stepped /\ IsError(last'))
         => current_timestamp' = current_timestamp]_vars

\* C9 (as claimed): current_timestamp after a pass is never smaller than
\* before it.
C9_CursorMonotonic ==
    [][Stepped => current_timestamp' >= current_timestamp]_vars

\* C9 (amended): current_timestamp after a pass is never smaller than
\* before it provided the current_date of the response, if it has one, is
\* not smaller than current_timestamp.
C9_CursorFollowsServer ==
    [][(Stepped
          /\ (last'.has_current_date
                => last'.current_date >= current_timestamp))
         => current_timestamp' >= current_timestamp]_vars

\* C9 witness: a pass has moved the cursor forward to the server's date.
C9_Witness ==
    /\ last.kind = "verdict"
    /\ ~last.from_clock
    /\ last.current_date > last.from_date
    /\ current_timestamp = last.current_date

\* C10: the pass after a successful pass that handed a message to the bot
\* requests from_date = the current_date of that pass's response, and does
\* not read the clock for it.
C10_NextFetchUsesServerDate ==
    [][(Stepped /\ last.kind = "verdict" /\ last.sent # <<>>)
         => (last'.from_date = last.current_date /\ ~last'.from_clock)]_vars

C13_UnknownStatusIsError ==
    [][(Stepped /\ GotValid(last') /\ last'.homeworks.items # <<>>
          /\ last'.homeworks.items[1].status
                \notin {"approved", "reviewing", "rejected"})
         => /\ parse_status(last'.homeworks.items[1]).exc # "None"
            /\ last'.kind = "parse_error"
            /\ last'.report =
                 ErrorStatusText(parse_status(last'.homeworks.items[1]).msg)
            /\ Len(last'.sent) =
                 (IF last'.report # error_status_previous THEN 1 ELSE 0)
            /\ \A i \in 1..Len(last'.sent) :
                 last'.sent[i].text = last'.report
            /\ error_status_previous' = last'.report]_vars

\* C13 witness: a record with an unknown status has been reported to the
\* bot as an error in a pass after which the loop goes on.
C13_Witness ==
    /\ last.kind = "parse_error"
    /\ last.homeworks.items # <<>>
    /\ last.homeworks.items[1].status = "unknown"
    /\ Len(last.sent) = 1
    /\ pc = "loop"

\* C14: when one of the three tokens is not set, the loop is never
\* entered: no request is made, nothing is handed to the bot, and the only
\* way main() ends is NoTokenException.
C14_MissingTokenStopsMain ==
    (\E t \in TokenNames : ~tokens[t])
      => /\ pc # "loop"
         /\ iter = 0
         /\ last = NoPass
         /\ http_notified = 0
         /\ (pc = "raised" => exc = "NoTokenException")

\* C14 witness: main() has ended in NoTokenException with exactly one token
\* not set.
C14_Witness ==
    /\ pc = "raised"
    /\ exc = "NoTokenException"
    /\ Cardinality({t \in TokenNames : ~tokens[t]}) = 1

\* C15: a pass in which the bot raised does not end with the bot's
\* exception leaving main(): the pass sleeps for the retry interval and
\* ends where it ends after a delivered message, at the top of the loop or,
\* when status_verdict was never assigned, in UnboundLocalError.
C15_SendFailureContained ==
    [][(Stepped /\ SentRaised(last'))
         => /\ exc' # "TelegramError"
            /\ last'.slept >= RETRY_TIME
            /\ (pc' = "loop" \/ exc' = "UnboundLocalError")]_vars

\* C15 witness: the bot has raised on the message of a pass and the program
\* is at the top of the loop, having slept.
C15_Witness ==
    /\ SentRaised(last)
    /\ pc = "loop"
    /\ last.slept = RETRY_TIME

C17_VerdictFromFirstRecord ==
    [][(Stepped /\ GotValid(last') /\ last'.homeworks.items # <<>>
          /\ last'.homeworks.items[1].has_name
          /\ last'.homeworks.items[1].status \in DOMAIN HOMEWORK_STATUSES)
         => /\ last'.kind = "verdict"
            /\ last'.report =
                 "Review status of work \""
                 \o last'.homeworks.items[1].homework_name
                 \o "\" changed. "
                 \o HOMEWORK_STATUSES[last'.homeworks.items[1].status]
            /\ Len(last'.sent) =
                 (IF last'.report # status_verdict_previous THEN 1 ELSE 0)
            /\ \A i \in 1..Len(last'.sent) :
                 last'.sent[i].text = last'.report]_vars

\* C17 witness: a verdict has been sent from a list whose second record
\* differs from the first.
C17_Witness ==
    /\ last.kind = "verdict"
    /\ Len(last.homeworks.items) >= 2
    /\ last.homeworks.items[2] # last.homeworks.items[1]
    /\ Len(last.sent) = 1

\* C18: no pass sleeps for more than one retry interval.
C18_OneSleepPerPass == last.slept <= RETRY_TIME

\* C19: every text handed to the bot is afterwards the value of the
\* previous-* variable of its kind, whatever the bot did with it; and a
\* pass that repeats the report of a pass in which the bot raised hands
\* nothing to the bot.
C19_UndeliveredIsRemembered ==
    [][Stepped
         => /\ \A i \in 1..Len(last'.sent) :
                 IF last'.sent[i].text = last'.report
                 THEN PreviousOf(last.kind)' = last'.sent[i].text
                 ELSE status_verdict_previous' = last'.sent[i].text
            /\ (last'.sent = <<>> => UNCHANGED previous_reports)
            /\ ((SentRaised(last) /\ last'.report = last.report)
                  => last'.sent = <<>>)]_vars

\* C19 witness: the bot has raised on a text and the previous-* variable of
\* its kind holds that text.
C19_Witness ==
    /\ SentRaised(last)
    /\ PreviousOf(last.kind) = last.sent[1].text

\* C20: the text of the non-200 error is handed to the bot at most once
\* between the start of main() and its end.
C20_HTTPErrorNotifiedOnce == http_notified <= 1

\* C20 witness: a non-200 answer that follows a pass of another kind has
\* been passed over without a message, the error having been sent before.
C20_Witness ==
    /\ http_notified = 1
    /\ last.kind = "HTTPstatusNot200"
    /\ ~last.repeated
    /\ last.sent = <<>>

====
